---- MODULE Spec2Model ----
(***************************************************************************)
(* CertMagic: ACME certificate issuance / renewal orchestration.           *)
(*                                                                         *)
(* The model follows the Next.js route handlers (generate-certificate,     *)
(* renew-certificate, verify-http-challenge, finalize-certificate,         *)
(* acme-challenge/[token]), the file store lib/acme-storage and the        *)
(* shared client of lib/acme-client.  A request is a process that moves    *)
(* from one `await` of its handler to the next; the file system and the    *)
(* ACME server are the shared state.  Every file operation and every ACME  *)
(* call may fail, as the handlers' try/catch blocks expect.                *)
(*                                                                         *)
(* Identities.  The ACME server numbers its orders 1, 2, ...; the order    *)
(* URL, the key pair and the CSR generated for an order, and the           *)
(* certificate issued for it are all named by that number.  An             *)
(* authorization is named by the number of the order that created it; its  *)
(* challenge token carries the same number.  An account key is named by    *)
(* the request slot that generated it.  0 stands for null / undefined /    *)
(* "no such file".                                                         *)
(***************************************************************************)
EXTENDS Integers, Sequences, FiniteSets, TLC

\* ------------------------------------------------------------------ bounds
\* Orders the ACME server accepts before it refuses new ones (rate limit).
MaxOrders == 2

\* Request slots: Procs run interleaved in ConcSpec, SeqProcs alone in Spec.
Procs == {1, 2}
SeqProcs == {1}

\* A JavaScript undefined / empty string.
Undefined == ""

Domains == {"a.example", "b.example"}
\* A request body may also carry a string the domain pattern rejects, or none.
DomainInputs == Domains \cup {"not a domain", Undefined}

ChallengeTypes == {"dns-01", "http-01"}
ChallengeTypeInputs == ChallengeTypes \cup {"tls-alpn-01"}

SupportedProviders == {"cloudflare", "route53", "godaddy"}
\* An absent dnsConfig reads as one with no provider and no apiKey.
NoDnsConfig == [provider |-> Undefined, apiKey |-> Undefined]
\* dnsConfig values a request may carry.
DnsConfigInputs ==
    { NoDnsConfig,
      [provider |-> "cloudflare", apiKey |-> "k"],
      [provider |-> "acme-dns",   apiKey |-> "k"],
      [provider |-> "cloudflare", apiKey |-> Undefined] }

OrderIds == 1..MaxOrders
Tokens   == 1..MaxOrders
Keys     == Procs

\* Values of the right shape that stand for "no such file" / undefined.
NoUrl == [authz |-> 0, tail |-> 0]
NoKeyAuthorization == [token |-> 0, thumbprint |-> 0]
NoChallenge == [token |-> 0, url |-> NoUrl, status |-> Undefined]
NoConfig == [domain |-> Undefined, challengeType |-> Undefined, dnsConfig |-> NoDnsConfig]
NoPendingOrder ==
    [ domain |-> Undefined, challengeType |-> Undefined, challengeUrl |-> NoUrl,
      token |-> 0, keyAuthorization |-> NoKeyAuthorization,
      privateKeyPem |-> 0, csrPem |-> 0 ]

\* --------------------------------------------------------------- variables
VARIABLES
    accountKeyFile,      \* .acme-data/account.key: 0 or a key
    crtFile,             \* certs/<domain>.crt  : domain -> 0 or certificate
    keyFile,             \* certs/<domain>.key  : domain -> 0 or private key
    configFile,          \* configs/<domain>.json: domain -> NoConfig or CertificateConfig
    pendingFile,         \* pending/pending_<sha256(orderUrl)>.json: order -> NoPendingOrder or PendingOrderData
    challengeFile,       \* pending/challenge_<token>.txt: token -> NoKeyAuthorization or key authorization
    acmeClientInstance,  \* module variable of lib/acme-client: 0 (null) or the key the client is bound to
    accounts,            \* ACME server: account keys registered
    orders,              \* ACME server: sequence of orders [domain, authz, status, csr]
    authz,               \* ACME server: authorization -> status of its challenge
    urlEmbedsToken,      \* ACME server: whether its challenge URLs contain the token
    req                  \* request slots: the handler invocation running in each

vars == << accountKeyFile, crtFile, keyFile, configFile, pendingFile, challengeFile,
           acmeClientInstance, accounts, orders, authz, urlEmbedsToken, req >>

certFiles == << crtFile, keyFile, configFile >>
pendingFiles == << pendingFile, challengeFile >>
files  == << accountKeyFile, certFiles, pendingFiles >>
server == << accounts, orders, authz, urlEmbedsToken >>

\* ----------------------------------------------------------------- helpers
Merge(r, u) == [f \in DOMAIN r |-> IF f \in DOMAIN u THEN u[f] ELSE r[f]]

\* A request slot at rest.
IdleReq ==
    [ kind |-> "none", pc |-> "idle",
      domain |-> Undefined, challengeType |-> Undefined, dnsConfig |-> NoDnsConfig,
      orderUrl |-> 0, challengeUrl |-> NoUrl, token |-> 0,
      accountKey |-> 0, client |-> 0,
      challenge |-> NoChallenge, keyAuthorization |-> NoKeyAuthorization,
      challengeRemovalFn |-> FALSE, pendingOrder |-> NoPendingOrder,
      orderStatus |-> Undefined, certificatePem |-> 0, privateKeyPem |-> 0,
      tokenToRemove |-> 0, ret |-> Undefined, writes |-> {}, failed |-> FALSE,
      storePendingOrderResult |-> Undefined, read |-> Undefined, cleanupFailed |-> FALSE,
      status |-> 0, body |-> Undefined, error |-> FALSE, calls |-> << >> ]

Upd(i, u) == req' = [req EXCEPT ![i] = Merge(req[i], u)]

\* The log of a request's calls to external services, with one more call.
Called(i, c) == Append(req[i].calls, c)
Did(i, c) == \E k \in DOMAIN req[i].calls : req[i].calls[k] = c

\* A slot can take a new request when it is at rest.
Free(i) == req[i].pc = "idle"

\* NextResponse.json(body, {status}): the handler returns.
Respond(code, bodyStatus, isError) ==
    [pc |-> "done", status |-> code, body |-> bodyStatus, error |-> isError]

Init ==
    /\ accountKeyFile = 0
    /\ crtFile = [d \in Domains |-> 0]
    /\ keyFile = [d \in Domains |-> 0]
    /\ configFile = [d \in Domains |-> NoConfig]
    /\ pendingFile = [o \in OrderIds |-> NoPendingOrder]
    /\ challengeFile = [t \in Tokens |-> NoKeyAuthorization]
    /\ acmeClientInstance = 0
    /\ accounts = {}
    /\ orders = << >>
    /\ authz = [a \in OrderIds |-> "none"]
    /\ urlEmbedsToken \in BOOLEAN
    /\ req = [i \in Procs |-> IdleReq]

\* ------------------------------------------------------- error handling
\* A catch block that removes the pending order in finalize-certificate too.
ThrowRemovingPendingOrder(i) ==
    IF \/ /\ req[i].kind \in {"generate", "renew"}
          /\ req[i].challengeType = "http-01"
          /\ req[i].orderUrl # 0
       \/ req[i].kind = "finalize"
    THEN [pc |-> "removePendingOrder", ret |-> "catch"]
    ELSE IF req[i].kind = "verify"
         THEN Respond(500, "invalid", TRUE)
         ELSE Respond(500, Undefined, TRUE)

\* An exception reaches the handler's catch block.  generate / renew: an
\* http-01 request whose order exists cleans up the pending order, then 500.
\* verify: 500 with status 'invalid' and an error.  finalize: 500.
Throw(i) ==
    IF /\ req[i].kind \in {"generate", "renew"}
       /\ req[i].challengeType = "http-01"
       /\ req[i].orderUrl # 0
    THEN [pc |-> "removePendingOrder", ret |-> "catch"]
    ELSE IF req[i].kind = "verify"
         THEN Respond(500, "invalid", TRUE)
         ELSE Respond(500, Undefined, TRUE)

\* ------------------------------------------------ lib/acme-client: client
\* Where a handler goes on once it holds the client.
AfterClient(kind) ==
    CASE kind \in {"generate", "renew"} -> "createOrder"
      [] kind = "verify"   -> "completeChallenge"
      [] kind = "finalize" -> "getOrder"

\* getAcmeClient up to its first await: the shared instance if there is one.
EnterGetAcmeClient(kind) ==
    IF acmeClientInstance # 0
    THEN [client |-> acmeClientInstance, pc |-> AfterClient(kind)]
    ELSE [pc |-> "getAccountKey"]

\* getAccountKey reads account.key; getAcmeClient then builds the client on
\* the key, publishes it in acmeClientInstance and calls createAccount.
GetAccountKey(i) ==
    /\ req[i].pc = "getAccountKey"
    /\ \/ /\ accountKeyFile # 0
          /\ acmeClientInstance' = accountKeyFile
          /\ Upd(i, [accountKey |-> accountKeyFile, pc |-> "createAccount"])
       \/ /\ accountKeyFile = 0              \* ENOENT: generate a key pair
          /\ Upd(i, [accountKey |-> i, pc |-> "writeAccountKey"])
          /\ UNCHANGED acmeClientInstance
       \/ /\ Upd(i, Throw(i))                \* ensureStorageDirs or readFile fails
          /\ UNCHANGED acmeClientInstance
    /\ UNCHANGED << files, server >>

\* getAccountKey writes the key it generated and returns it.
WriteAccountKey(i) ==
    /\ req[i].pc = "writeAccountKey"
    /\ \/ /\ accountKeyFile' = req[i].accountKey
          /\ acmeClientInstance' = req[i].accountKey
          /\ Upd(i, [pc |-> "createAccount"])
       \/ /\ Upd(i, Throw(i))
          /\ UNCHANGED << accountKeyFile, acmeClientInstance >>
    /\ UNCHANGED << certFiles, pendingFiles, server >>

\* A getAcmeClient that keeps the instance when createAccount fails.
CreateAccountKeepingInstance(i) ==
    /\ req[i].pc = "createAccount"
    /\ \/ /\ accounts' = accounts \cup {req[i].accountKey}
          /\ Upd(i, [client |-> acmeClientInstance, pc |-> AfterClient(req[i].kind),
                     calls |-> Called(i, "createAccount")])
       \/ /\ Upd(i, Throw(i) @@ [calls |-> Called(i, "createAccount")])
          /\ UNCHANGED accounts
    /\ UNCHANGED << files, acmeClientInstance, orders, authz, urlEmbedsToken >>

\* createAccount settles; getAcmeClient returns what acmeClientInstance holds now.
CreateAccount(i) ==
    /\ req[i].pc = "createAccount"
    /\ \/ /\ accounts' = accounts \cup {req[i].accountKey}   \* created, or 'already exists'
          /\ Upd(i, [client |-> acmeClientInstance, pc |-> AfterClient(req[i].kind),
                     calls |-> Called(i, "createAccount")])
          /\ UNCHANGED acmeClientInstance
       \/ /\ acmeClientInstance' = 0
          /\ Upd(i, Throw(i) @@ [calls |-> Called(i, "createAccount")])
          /\ UNCHANGED accounts
    /\ UNCHANGED << files, orders, authz, urlEmbedsToken >>

\* -------------------------------------------------------- the ACME server
\* The URL of the challenge of authorization a, as the server formats it.
ChallengeUrl(a) == [authz |-> a, tail |-> IF urlEmbedsToken THEN a ELSE 0]

\* String.prototype.includes on a challenge URL and a token.
Includes(url, token) == url.tail = token

\* The status the server reports for order o.
OrderStatus(o) ==
    IF orders[o].status # "open" THEN orders[o].status
    ELSE CASE authz[orders[o].authz] = "valid"   -> "ready"
           [] authz[orders[o].authz] = "invalid" -> "invalid"
           [] OTHER -> "pending"

\* Authorizations the server may hand to a new order for the domain: the
\* completed (valid) ones it still holds for that domain.
Reusable(domain) ==
    {a \in 1..Len(orders) : orders[a].domain = domain /\ authz[a] = "valid"}

\* The server validates a challenge it was asked to validate.
AcmeValidate ==
    /\ \E a \in OrderIds :
          /\ authz[a] = "processing"
          /\ \E s \in {"valid", "invalid"} : authz' = [authz EXCEPT ![a] = s]
    /\ UNCHANGED << files, acmeClientInstance, accounts, orders, urlEmbedsToken, req >>

\* The server issues the certificate of a finalized order.
AcmeIssue ==
    /\ \E o \in 1..Len(orders) :
          /\ orders[o].status = "processing"
          /\ orders' = [orders EXCEPT ![o].status = "valid"]
    /\ UNCHANGED << files, acmeClientInstance, accounts, authz, urlEmbedsToken, req >>

\* ------------------------------------------- lib/acme-storage: pending orders
\* What a handler does once removePendingOrder has returned to it.
Return(i) ==
    CASE req[i].ret = "catch"   -> Respond(500, Undefined, TRUE)
      [] req[i].ret = "invalid" -> Respond(400, Undefined, TRUE)
      [] req[i].ret = "issued"  -> Respond(200, "issued", FALSE)

\* A PendingOrderData in which a renewal keeps the key the domain already
\* has instead of the one generated for the new order.
PendingOrderDataKeepingKey(i) ==
    [ domain |-> req[i].domain, challengeType |-> "http-01",
      challengeUrl |-> req[i].challenge.url, token |-> req[i].challenge.token,
      keyAuthorization |-> req[i].keyAuthorization,
      privateKeyPem |-> IF req[i].kind = "renew" THEN keyFile[req[i].domain]
                        ELSE req[i].privateKeyPem,
      csrPem |-> req[i].orderUrl ]

\* The PendingOrderData generate / renew hand to storePendingOrder.
PendingOrderData(i) ==
    [ domain |-> req[i].domain, challengeType |-> "http-01",
      challengeUrl |-> req[i].challenge.url, token |-> req[i].challenge.token,
      keyAuthorization |-> req[i].keyAuthorization,
      privateKeyPem |-> req[i].privateKeyPem, csrPem |-> req[i].orderUrl ]

\* storePendingOrder: ensureStorageDirs, then the pending file is written.
StorePendingOrder(i) ==
    /\ req[i].pc = "storePendingOrder"
    /\ \/ /\ pendingFile' = [pendingFile EXCEPT ![req[i].orderUrl] = PendingOrderData(i)]
          /\ Upd(i, [pc |-> "storeHttpChallenge"])
       \/ /\ Upd(i, [pc |-> "storePendingOrderCatch"])     \* writeFile fails
          /\ UNCHANGED pendingFile
       \/ /\ Upd(i, Throw(i) @@ [storePendingOrderResult |-> "threw"])  \* ensureStorageDirs fails
          /\ UNCHANGED pendingFile
    /\ UNCHANGED << accountKeyFile, certFiles, challengeFile, acmeClientInstance, server >>

\* What a writeFile that failed part-way leaves of a key authorization.
Truncated(keyAuthorization) == [keyAuthorization EXCEPT !.thumbprint = 0]

\* A storePendingOrder that does not store the challenge response: the
\* handler answers 'http-01-pending' with the pending file alone.
StoreHttpChallengeSkipped(i) ==
    /\ req[i].pc = "storeHttpChallenge"
    /\ Upd(i, Respond(200, "http-01-pending", FALSE) @@ [storePendingOrderResult |-> "returned"])
    /\ UNCHANGED << files, acmeClientInstance, server >>

\* storePendingOrder calls storeHttpChallenge; the handler then answers
\* 'http-01-pending'.  A writeFile that fails leaves no file, the file that
\* was there, or a truncated one.
StoreHttpChallenge(i) ==
    /\ req[i].pc = "storeHttpChallenge"
    /\ \/ /\ challengeFile' = [challengeFile EXCEPT ![req[i].challenge.token] = req[i].keyAuthorization]
          /\ Upd(i, Respond(200, "http-01-pending", FALSE) @@ [storePendingOrderResult |-> "returned"])
       \/ /\ Upd(i, [pc |-> "storePendingOrderCatch"])     \* it throws
          /\ UNCHANGED challengeFile
       \/ /\ Upd(i, [pc |-> "storePendingOrderCatch"])     \* it throws, part-way
          /\ challengeFile' = [challengeFile EXCEPT ![req[i].challenge.token] = Truncated(req[i].keyAuthorization)]
    /\ UNCHANGED << accountKeyFile, certFiles, pendingFile, acmeClientInstance, server >>

\* The catch block of storePendingOrder: removeHttpChallenge, whose own
\* failure is ignored, then the error is thrown to the handler.
StorePendingOrderCatch(i) ==
    /\ req[i].pc = "storePendingOrderCatch"
    /\ \/ challengeFile' = [challengeFile EXCEPT ![req[i].challenge.token] = NoKeyAuthorization]
       \/ UNCHANGED challengeFile                          \* unlink fails
    /\ Upd(i, Throw(i) @@ [storePendingOrderResult |-> "threw"])
    /\ UNCHANGED << accountKeyFile, certFiles, pendingFile, acmeClientInstance, server >>

\* removePendingOrder throws (ensureStorageDirs, outside its try block).  In
\* the try block of finalize the handler's catch answers 500 with an error;
\* in the catch block of generate / renew nothing catches it and the
\* framework answers 500 without the handler's error body.
RemovePendingOrderThrows(i) ==
    Respond(500, Undefined, req[i].ret # "catch") @@ [cleanupFailed |-> TRUE]

\* removePendingOrder reads the token from the pending file.
RemovePendingOrder(i) ==
    /\ req[i].pc = "removePendingOrder"
    /\ \/ Upd(i, [tokenToRemove |-> pendingFile[req[i].orderUrl].token, pc |-> "unlinkPendingOrder"])
       \/ Upd(i, [tokenToRemove |-> 0, pc |-> "unlinkPendingOrder",  \* readFile fails, not ENOENT
                  cleanupFailed |-> TRUE])
       \/ Upd(i, RemovePendingOrderThrows(i))
    /\ UNCHANGED << files, acmeClientInstance, server >>

\* removePendingOrder unlinks the pending file.
UnlinkPendingOrder(i) ==
    /\ req[i].pc = "unlinkPendingOrder"
    /\ \/ /\ pendingFile' = [pendingFile EXCEPT ![req[i].orderUrl] = NoPendingOrder]
          /\ Upd(i, IF req[i].tokenToRemove # 0
                    THEN [pc |-> "removeHttpChallenge"]
                    ELSE Return(i))
       \/ /\ UNCHANGED pendingFile                         \* unlink fails, not ENOENT
          /\ Upd(i, Return(i) @@ [cleanupFailed |-> TRUE])
    /\ UNCHANGED << accountKeyFile, certFiles, challengeFile, acmeClientInstance, server >>

\* removePendingOrder calls removeHttpChallenge, which keeps its errors.
RemoveHttpChallenge(i) ==
    /\ req[i].pc = "removeHttpChallenge"
    /\ \/ /\ challengeFile' = [challengeFile EXCEPT ![req[i].tokenToRemove] = NoKeyAuthorization]
          /\ Upd(i, Return(i))
       \/ /\ UNCHANGED challengeFile                       \* unlink fails, not ENOENT
          /\ Upd(i, Return(i) @@ [cleanupFailed |-> TRUE])
    /\ UNCHANGED << accountKeyFile, certFiles, pendingFile, acmeClientInstance, server >>

\* ------------------------------------------ lib/acme-storage: certificates
CertificateFileNames == {"crt", "key", "json"}

\* A configuration that records every certificate as an http-01 one.
CertificateConfigWithoutDns(i) ==
    [domain |-> req[i].domain, challengeType |-> "http-01", dnsConfig |-> NoDnsConfig]

\* The CertificateConfig the running handler stores with the certificate.
CertificateConfig(i) ==
    IF req[i].kind = "finalize"
    THEN [domain |-> req[i].domain, challengeType |-> "http-01", dnsConfig |-> NoDnsConfig]
    ELSE [domain |-> req[i].domain, challengeType |-> "dns-01", dnsConfig |-> req[i].dnsConfig]

\* A finalize-certificate that answers 'issued' as soon as the certificate
\* is stored, and leaves the pending state where it is.
AfterStoreCertificateKeepingPending(i) ==
    Respond(200, "issued", FALSE) @@ [ret |-> "issued"]

\* What a handler does once storeCertificate has returned to it.
AfterStoreCertificate(i) ==
    IF req[i].kind = "finalize"
    THEN [pc |-> "removePendingOrder", ret |-> "issued"]
    ELSE Respond(200, "issued", FALSE)

\* A storeCertificate that removes the file a failing write was meant to
\* replace.
StoreCertificateUnlinkingOnFailure(i) ==
    /\ req[i].pc = "storeCertificate"
    /\ \E f \in req[i].writes, ok \in BOOLEAN :
          LET rest == req[i].writes \ {f}
              bad  == req[i].failed \/ ~ok
              d    == req[i].domain
          IN  /\ crtFile' = IF f = "crt"
                            THEN [crtFile EXCEPT ![d] = IF ok THEN req[i].certificatePem ELSE 0]
                            ELSE crtFile
              /\ keyFile' = IF f = "key"
                            THEN [keyFile EXCEPT ![d] = IF ok THEN req[i].privateKeyPem ELSE 0]
                            ELSE keyFile
              /\ configFile' = IF f = "json"
                               THEN [configFile EXCEPT ![d] = IF ok THEN CertificateConfig(i) ELSE NoConfig]
                               ELSE configFile
              /\ Upd(i, IF rest # {} THEN [writes |-> rest, failed |-> bad]
                        ELSE IF bad THEN Throw(i) @@ [writes |-> rest, failed |-> bad]
                        ELSE AfterStoreCertificate(i) @@ [writes |-> rest])
    /\ UNCHANGED << accountKeyFile, pendingFiles, acmeClientInstance, server >>

\* A storeCertificate that logs a failed write and returns normally.
StoreCertificateSwallowingFailure(i) ==
    /\ req[i].pc = "storeCertificate"
    /\ \/ \E f \in req[i].writes, ok \in BOOLEAN :
            LET rest == req[i].writes \ {f}
                bad  == req[i].failed \/ ~ok
                d    == req[i].domain
            IN  /\ crtFile' = IF ok /\ f = "crt" THEN [crtFile EXCEPT ![d] = req[i].certificatePem] ELSE crtFile
                /\ keyFile' = IF ok /\ f = "key" THEN [keyFile EXCEPT ![d] = req[i].privateKeyPem] ELSE keyFile
                /\ configFile' = IF ok /\ f = "json" THEN [configFile EXCEPT ![d] = CertificateConfig(i)] ELSE configFile
                /\ Upd(i, IF rest # {} THEN [writes |-> rest, failed |-> bad]
                          ELSE AfterStoreCertificate(i) @@ [writes |-> rest])
       \/ /\ req[i].writes = CertificateFileNames
          /\ Upd(i, Throw(i))
          /\ UNCHANGED certFiles
    /\ UNCHANGED << accountKeyFile, pendingFiles, acmeClientInstance, server >>

\* storeCertificate: three writes run together (Promise.all); one of them
\* settles.  When all have settled the call returns, or throws if one failed.
StoreCertificate(i) ==
    /\ req[i].pc = "storeCertificate"
    /\ \/ \E f \in req[i].writes, ok \in BOOLEAN :
            LET rest == req[i].writes \ {f}
                bad  == req[i].failed \/ ~ok
                d    == req[i].domain
            IN  /\ crtFile' = IF ok /\ f = "crt" THEN [crtFile EXCEPT ![d] = req[i].certificatePem] ELSE crtFile
                /\ keyFile' = IF ok /\ f = "key" THEN [keyFile EXCEPT ![d] = req[i].privateKeyPem] ELSE keyFile
                /\ configFile' = IF ok /\ f = "json" THEN [configFile EXCEPT ![d] = CertificateConfig(i)] ELSE configFile
                /\ Upd(i, IF rest # {} THEN [writes |-> rest, failed |-> bad]
                          ELSE IF bad THEN Throw(i) @@ [writes |-> rest, failed |-> bad]
                          ELSE AfterStoreCertificate(i) @@ [writes |-> rest])
       \/ /\ req[i].writes = CertificateFileNames         \* ensureStorageDirs fails
          /\ Upd(i, Throw(i))
          /\ UNCHANGED certFiles
    /\ UNCHANGED << accountKeyFile, pendingFiles, acmeClientInstance, server >>

\* ------------------------------------------------------ request handlers
\* How a retrieve* call of lib/acme-storage ends: it returns the file's
\* content (null if there is no file); readFile fails and it returns null;
\* ensureStorageDirs fails and it throws.
ReadOutcomes == {"ok", "fails", "throws"}

Begin(i, u) == req' = [req EXCEPT ![i] = Merge(IdleReq, u)]

\* A generate-certificate that does not check the dnsConfig of a dns-01
\* request before it obtains the client.
GenerateStartUncheckedDns(i) ==
    /\ Free(i)
    /\ \E domain \in DomainInputs, challengeType \in ChallengeTypeInputs, dnsConfig \in DnsConfigInputs :
          /\ challengeType = "dns-01" \/ dnsConfig = NoDnsConfig
          /\ LET in == [kind |-> "generate", domain |-> domain,
                        challengeType |-> challengeType, dnsConfig |-> dnsConfig]
             IN  Begin(i,
                   IF domain \notin Domains
                   THEN Respond(400, Undefined, TRUE) @@ in
                   ELSE IF challengeType \notin ChallengeTypes
                   THEN Respond(400, Undefined, TRUE) @@ in
                   ELSE EnterGetAcmeClient("generate") @@ in)
    /\ UNCHANGED << files, acmeClientInstance, server >>

\* POST generate-certificate: the body is validated, then getAcmeClient.
GenerateStart(i) ==
    /\ Free(i)
    /\ \E domain \in DomainInputs, challengeType \in ChallengeTypeInputs, dnsConfig \in DnsConfigInputs :
          /\ challengeType = "dns-01" \/ dnsConfig = NoDnsConfig
          /\ LET in == [kind |-> "generate", domain |-> domain,
                        challengeType |-> challengeType, dnsConfig |-> dnsConfig]
             IN  Begin(i,
                   IF domain \notin Domains
                   THEN Respond(400, Undefined, TRUE) @@ in
                   ELSE IF challengeType \notin ChallengeTypes
                   THEN Respond(400, Undefined, TRUE) @@ in
                   ELSE IF /\ challengeType = "dns-01"
                           /\ (dnsConfig.provider = Undefined \/ dnsConfig.apiKey = Undefined)
                   THEN Respond(400, Undefined, TRUE) @@ in
                   ELSE EnterGetAcmeClient("generate") @@ in)
    /\ UNCHANGED << files, acmeClientInstance, server >>

\* A renew-certificate that does not look at the stored challenge type and
\* renews every domain by http-01.
RenewStartHttp01(i) ==
    /\ Free(i)
    /\ \E domain \in DomainInputs, read \in ReadOutcomes :
          LET storedConfig == IF read = "ok" /\ domain \in Domains THEN configFile[domain] ELSE NoConfig
              in == [kind |-> "renew", domain |-> domain]
              cfg == [challengeType |-> "http-01", dnsConfig |-> storedConfig.dnsConfig]
          IN  Begin(i,
                IF domain = Undefined
                THEN Respond(400, Undefined, TRUE) @@ in
                ELSE IF read = "throws"
                THEN Respond(500, Undefined, TRUE) @@ in
                ELSE IF storedConfig = NoConfig
                THEN Respond(404, Undefined, TRUE) @@ in
                ELSE EnterGetAcmeClient("renew") @@ cfg @@ in)
    /\ UNCHANGED << files, acmeClientInstance, server >>

\* A renew-certificate that treats a domain without stored configuration as
\* an http-01 domain and goes on to issue for it.
RenewStartDefaulting(i) ==
    /\ Free(i)
    /\ \E domain \in DomainInputs, read \in ReadOutcomes :
          LET storedConfig == IF read = "ok" /\ domain \in Domains THEN configFile[domain] ELSE NoConfig
              in == [kind |-> "renew", domain |-> domain, read |-> read]
              cfg == [challengeType |-> IF storedConfig = NoConfig THEN "http-01"
                                        ELSE storedConfig.challengeType,
                      dnsConfig |-> storedConfig.dnsConfig]
          IN  Begin(i,
                IF domain = Undefined
                THEN Respond(400, Undefined, TRUE) @@ in
                ELSE IF read = "throws"
                THEN Respond(500, Undefined, TRUE) @@ in
                ELSE IF /\ storedConfig.challengeType = "dns-01"
                        /\ (storedConfig.dnsConfig = NoDnsConfig \/ storedConfig.dnsConfig.apiKey = Undefined)
                THEN Respond(500, Undefined, TRUE) @@ cfg @@ in
                ELSE EnterGetAcmeClient("renew") @@ cfg @@ in)
    /\ UNCHANGED << files, acmeClientInstance, server >>

\* POST renew-certificate: the stored configuration decides the challenge.
RenewStart(i) ==
    /\ Free(i)
    /\ \E domain \in DomainInputs, read \in ReadOutcomes :
          LET storedConfig == IF read = "ok" /\ domain \in Domains THEN configFile[domain] ELSE NoConfig
              in == [kind |-> "renew", domain |-> domain, read |-> read]
              cfg == [challengeType |-> storedConfig.challengeType,
                      dnsConfig |-> storedConfig.dnsConfig]
          IN  Begin(i,
                IF domain = Undefined
                THEN Respond(400, Undefined, TRUE) @@ in
                ELSE IF read = "throws"
                THEN Respond(500, Undefined, TRUE) @@ in
                ELSE IF storedConfig = NoConfig
                THEN Respond(404, Undefined, TRUE) @@ in
                ELSE IF /\ storedConfig.challengeType = "dns-01"
                        /\ (storedConfig.dnsConfig = NoDnsConfig \/ storedConfig.dnsConfig.apiKey = Undefined)
                THEN Respond(500, Undefined, TRUE) @@ cfg @@ in
                ELSE EnterGetAcmeClient("renew") @@ cfg @@ in)
    /\ UNCHANGED << files, acmeClientInstance, server >>

\* createCsr, then client.createOrder: the server opens an order on a new
\* authorization or on a valid one it holds for the domain.
CreateOrder(i) ==
    /\ req[i].pc = "createOrder"
    /\ \/ /\ req[i].client # 0
          /\ Len(orders) < MaxOrders
          /\ LET n == Len(orders) + 1
             IN  /\ \E a \in {n} \cup Reusable(req[i].domain) :
                       /\ orders' = Append(orders, [domain |-> req[i].domain, authz |-> a,
                                                    status |-> "open", csr |-> 0])
                       /\ authz' = IF a = n THEN [authz EXCEPT ![n] = "pending"] ELSE authz
                 /\ Upd(i, [orderUrl |-> n, privateKeyPem |-> n, pc |-> "getAuthorizations",
                            calls |-> Called(i, "createOrder")])
       \/ /\ Upd(i, Throw(i) @@ [calls |-> Called(i, "createOrder")])
          /\ UNCHANGED << orders, authz >>
    /\ UNCHANGED << files, acmeClientInstance, accounts, urlEmbedsToken >>

\* getAuthorizations, the challenge of the requested type and its key
\* authorization; then dns-01 creates the TXT record (challengeCreateDns01)
\* unless the challenge is not pending, and http-01 goes to storePendingOrder.
GetAuthorizations(i) ==
    /\ req[i].pc = "getAuthorizations"
    /\ LET a  == orders[req[i].orderUrl].authz
           got == [ challenge |-> [token |-> a, url |-> ChallengeUrl(a), status |-> authz[a]],
                    keyAuthorization |-> [token |-> a, thumbprint |-> req[i].client] ]
       IN  \/ /\ req[i].challengeType = "http-01"
              /\ Upd(i, [pc |-> "storePendingOrder"] @@ got)
           \/ /\ req[i].challengeType = "dns-01"
              /\ authz[a] # "pending"
              /\ Upd(i, [pc |-> "finalizeOrder"] @@ got)
           \/ /\ req[i].challengeType = "dns-01"
              /\ authz[a] = "pending"
              /\ req[i].dnsConfig.provider \in SupportedProviders
              /\ Upd(i, [pc |-> "completeChallenge", challengeRemovalFn |-> TRUE,
                         calls |-> Called(i, "challengeCreateDns01")] @@ got)
           \/ /\ req[i].challengeType = "dns-01"
              /\ authz[a] = "pending"
              /\ req[i].dnsConfig.provider \notin SupportedProviders
              /\ Upd(i, Throw(i) @@ got)
           \/ Upd(i, Throw(i))      \* ACME error, no authorization, or no such challenge
    /\ UNCHANGED << files, acmeClientInstance, server >>

\* client.completeChallenge: the server starts validating a pending challenge.
CompleteChallenge(i) ==
    /\ req[i].pc = "completeChallenge"
    /\ LET a == req[i].challenge.token
       IN  \/ /\ req[i].client # 0
              /\ authz' = IF authz[a] = "pending" THEN [authz EXCEPT ![a] = "processing"] ELSE authz
              /\ Upd(i, [pc |-> "waitForValidStatus", calls |-> Called(i, "completeChallenge")])
           \/ /\ Upd(i, Throw(i) @@ [calls |-> Called(i, "completeChallenge")])
              /\ UNCHANGED authz
    /\ UNCHANGED << files, acmeClientInstance, accounts, orders, urlEmbedsToken >>

\* A dns-01 branch that leaves the TXT record in place and finalizes at once.
AfterWaitForValidStatusKeepingRecord(i, status) ==
    IF req[i].kind = "verify"
    THEN IF status = "valid"
         THEN Respond(200, "valid", FALSE)
         ELSE Respond(400, "invalid", FALSE)
    ELSE [pc |-> "finalizeOrder"]

\* What a handler does with the challenge waitForValidStatus returned.
\* dns-01 ignores its status, removes the TXT record (challengeRemoveDns01)
\* and goes to finalizeOrder; verify answers 'valid' or 'invalid'.
AfterWaitForValidStatus(i, status) ==
    IF req[i].kind = "verify"
    THEN IF status = "valid"
         THEN Respond(200, "valid", FALSE)
         ELSE Respond(400, "invalid", FALSE)
    ELSE [pc |-> "finalizeOrder",
          calls |-> IF req[i].challengeRemovalFn
                    THEN Called(i, "challengeRemoveDns01") ELSE req[i].calls]

\* A verify-http-challenge that gives up an order whose validation failed:
\* waitForValidStatus as below, but the pending order is deleted when the
\* challenge comes back invalid.
WaitForValidStatusGivingUp(i) ==
    /\ req[i].pc = "waitForValidStatus"
    /\ LET a == req[i].challenge.token
           gaveUp == req[i].kind = "verify" /\ authz[a] = "invalid"
       IN  \/ /\ authz[a] \in {"valid", "invalid"}
              /\ Upd(i, AfterWaitForValidStatus(i, authz[a]))
              /\ pendingFile' = IF gaveUp
                                THEN [pendingFile EXCEPT ![req[i].orderUrl] = NoPendingOrder]
                                ELSE pendingFile
           \/ /\ Upd(i, Throw(i))
              /\ UNCHANGED pendingFile
    /\ UNCHANGED << accountKeyFile, certFiles, challengeFile, acmeClientInstance, server >>

\* A verify-http-challenge that stops serving a challenge whose validation
\* failed: waitForValidStatus as below, but the challenge file is deleted
\* when the challenge comes back invalid.
WaitForValidStatusDroppingChallenge(i) ==
    /\ req[i].pc = "waitForValidStatus"
    /\ LET a == req[i].challenge.token
           dropped == req[i].kind = "verify" /\ authz[a] = "invalid"
       IN  \/ /\ authz[a] \in {"valid", "invalid"}
              /\ Upd(i, AfterWaitForValidStatus(i, authz[a]))
              /\ challengeFile' = IF dropped
                                  THEN [challengeFile EXCEPT ![a] = NoKeyAuthorization]
                                  ELSE challengeFile
           \/ /\ Upd(i, Throw(i))
              /\ UNCHANGED challengeFile
    /\ UNCHANGED << accountKeyFile, certFiles, pendingFile, acmeClientInstance, server >>

\* client.waitForValidStatus: returns the challenge once the server has
\* settled it, or throws.
WaitForValidStatus(i) ==
    /\ req[i].pc = "waitForValidStatus"
    /\ LET a == req[i].challenge.token
       IN  \/ /\ authz[a] \in {"valid", "invalid"}
              /\ Upd(i, AfterWaitForValidStatus(i, authz[a]))
           \/ Upd(i, Throw(i))
    /\ UNCHANGED << files, acmeClientInstance, server >>

\* The CSR a handler finalizes with: its own, or the pending order's.
Csr(i) == IF req[i].kind = "finalize" THEN req[i].pendingOrder.csrPem ELSE req[i].orderUrl

\* client.finalizeOrder(order, csr): the server accepts it for a ready order.
FinalizeOrder(i) ==
    /\ req[i].pc = "finalizeOrder"
    /\ \/ /\ req[i].client # 0
          /\ OrderStatus(req[i].orderUrl) = "ready"
          /\ orders' = [orders EXCEPT ![req[i].orderUrl] = [@ EXCEPT !.status = "processing", !.csr = Csr(i)]]
          /\ Upd(i, [pc |-> "getCertificate", calls |-> Called(i, "finalizeOrder")])
       \/ /\ Upd(i, Throw(i) @@ [calls |-> Called(i, "finalizeOrder")])
          /\ UNCHANGED orders
    /\ UNCHANGED << files, acmeClientInstance, accounts, authz, urlEmbedsToken >>

\* client.getCertificate: the chain issued for the CSR; storeCertificate starts.
GetCertificate(i) ==
    /\ req[i].pc = "getCertificate"
    /\ \/ /\ orders[req[i].orderUrl].status = "valid"
          /\ Upd(i, [certificatePem |-> orders[req[i].orderUrl].csr,
                     privateKeyPem |-> IF req[i].kind = "finalize"
                                       THEN req[i].pendingOrder.privateKeyPem
                                       ELSE req[i].privateKeyPem,
                     pc |-> "storeCertificate", writes |-> CertificateFileNames, failed |-> FALSE,
                     calls |-> Called(i, "getCertificate")])
       \/ Upd(i, Throw(i) @@ [calls |-> Called(i, "getCertificate")])
    /\ UNCHANGED << files, acmeClientInstance, server >>

\* A verify-http-challenge that completes the challenge named in the request
\* body, whatever challenge URL the pending order holds.
VerifyStartTrustingBody(i) ==
    /\ Free(i)
    /\ \E orderUrl \in 0..Len(orders), a \in 0..Len(orders), domain \in {"a.example", Undefined},
          read \in ReadOutcomes :
          LET challengeUrl == IF a = 0 THEN NoUrl ELSE ChallengeUrl(a)
              pendingOrder == IF read = "ok" /\ orderUrl # 0 THEN pendingFile[orderUrl] ELSE NoPendingOrder
              in == [kind |-> "verify", domain |-> domain, orderUrl |-> orderUrl,
                     challengeUrl |-> challengeUrl, read |-> read]
          IN  Begin(i,
                IF challengeUrl = NoUrl \/ orderUrl = 0 \/ domain = Undefined
                THEN Respond(400, Undefined, TRUE) @@ in
                ELSE IF read = "throws"
                THEN Respond(500, "invalid", TRUE) @@ in
                ELSE IF pendingOrder = NoPendingOrder
                THEN Respond(404, Undefined, TRUE) @@ in
                ELSE IF ~Includes(challengeUrl, pendingOrder.token)
                THEN Respond(500, Undefined, TRUE) @@ in
                ELSE EnterGetAcmeClient("verify")
                     @@ [pendingOrder |-> pendingOrder,
                         challenge |-> [token |-> pendingOrder.token,
                                        url |-> challengeUrl, status |-> "pending"]]
                     @@ in)
    /\ UNCHANGED << files, acmeClientInstance, server >>

\* POST verify-http-challenge: the pending order is read and checked.
VerifyStart(i) ==
    /\ Free(i)
    /\ \E orderUrl \in 0..Len(orders), a \in 0..Len(orders), domain \in {"a.example", Undefined},
          read \in ReadOutcomes :
          LET challengeUrl == IF a = 0 THEN NoUrl ELSE ChallengeUrl(a)
              pendingOrder == IF read = "ok" /\ orderUrl # 0 THEN pendingFile[orderUrl] ELSE NoPendingOrder
              in == [kind |-> "verify", domain |-> domain, orderUrl |-> orderUrl,
                     challengeUrl |-> challengeUrl, read |-> read]
          IN  Begin(i,
                IF challengeUrl = NoUrl \/ orderUrl = 0 \/ domain = Undefined
                THEN Respond(400, Undefined, TRUE) @@ in
                ELSE IF read = "throws"
                THEN Respond(500, "invalid", TRUE) @@ in
                ELSE IF pendingOrder = NoPendingOrder \/ pendingOrder.challengeUrl # challengeUrl
                THEN Respond(404, Undefined, TRUE) @@ in
                ELSE IF ~Includes(pendingOrder.challengeUrl, pendingOrder.token)
                THEN Respond(500, Undefined, TRUE) @@ in
                ELSE EnterGetAcmeClient("verify")
                     @@ [pendingOrder |-> pendingOrder,
                         challenge |-> [token |-> pendingOrder.token,
                                        url |-> pendingOrder.challengeUrl, status |-> "pending"]]
                     @@ in)
    /\ UNCHANGED << files, acmeClientInstance, server >>

\* A finalize-certificate that does not compare the pending order's domain
\* with the requested one.
FinalizeStartAnyDomain(i) ==
    /\ Free(i)
    /\ \E orderUrl \in 0..Len(orders), domain \in Domains \cup {Undefined}, read \in ReadOutcomes :
          LET pendingOrder == IF read = "ok" /\ orderUrl # 0 THEN pendingFile[orderUrl] ELSE NoPendingOrder
              in == [kind |-> "finalize", domain |-> domain, orderUrl |-> orderUrl, read |-> read]
          IN  Begin(i,
                IF orderUrl = 0 \/ domain = Undefined
                THEN Respond(400, Undefined, TRUE) @@ in
                ELSE IF read = "throws"
                THEN Respond(500, Undefined, TRUE) @@ in
                ELSE IF pendingOrder = NoPendingOrder
                THEN Respond(404, Undefined, TRUE) @@ in
                ELSE EnterGetAcmeClient("finalize") @@ [pendingOrder |-> pendingOrder] @@ in)
    /\ UNCHANGED << files, acmeClientInstance, server >>

\* POST finalize-certificate: the pending order is read and checked.
FinalizeStart(i) ==
    /\ Free(i)
    /\ \E orderUrl \in 0..Len(orders), domain \in Domains \cup {Undefined}, read \in ReadOutcomes :
          LET pendingOrder == IF read = "ok" /\ orderUrl # 0 THEN pendingFile[orderUrl] ELSE NoPendingOrder
              in == [kind |-> "finalize", domain |-> domain, orderUrl |-> orderUrl, read |-> read]
          IN  Begin(i,
                IF orderUrl = 0 \/ domain = Undefined
                THEN Respond(400, Undefined, TRUE) @@ in
                ELSE IF read = "throws"
                THEN Respond(500, Undefined, TRUE) @@ in
                ELSE IF pendingOrder = NoPendingOrder
                THEN Respond(404, Undefined, TRUE) @@ in
                ELSE IF pendingOrder.domain # domain
                THEN Respond(400, Undefined, TRUE) @@ in
                ELSE EnterGetAcmeClient("finalize") @@ [pendingOrder |-> pendingOrder] @@ in)
    /\ UNCHANGED << files, acmeClientInstance, server >>

\* client.getOrder: only a ready order is finalized; an invalid one has its
\* pending state removed.
GetOrder(i) ==
    /\ req[i].pc = "getOrder"
    /\ \/ /\ req[i].client # 0
          /\ LET status == OrderStatus(req[i].orderUrl)
                 seen == [orderStatus |-> status, calls |-> Called(i, "getOrder")]
             IN  Upd(i, IF status = "ready" THEN [pc |-> "finalizeOrder"] @@ seen
                        ELSE IF status = "invalid"
                        THEN [pc |-> "removePendingOrder", ret |-> "invalid"] @@ seen
                        ELSE Respond(400, Undefined, TRUE) @@ seen)
       \/ Upd(i, Throw(i) @@ [calls |-> Called(i, "getOrder")])
    /\ UNCHANGED << files, acmeClientInstance, server >>

\* The token pattern of the challenge route: /^[a-zA-Z0-9_-]+$/.  Tokens are
\* numbered from 1; 0 is the empty token and -1 one with a character outside
\* the pattern.
TokenInputs == Tokens \cup {0, -1}
WellFormed(token) == token \in Tokens

\* retrieveHttpChallenge: the stored key authorization, or null.
retrieveHttpChallenge(token) == challengeFile[token]

\* GET acme-challenge/[token], as a function of the store.
GET(token) ==
    IF ~WellFormed(token) THEN [status |-> 400, text |-> NoKeyAuthorization]
    ELSE IF retrieveHttpChallenge(token) = NoKeyAuthorization
    THEN [status |-> 404, text |-> NoKeyAuthorization]
    ELSE [status |-> 200, text |-> retrieveHttpChallenge(token)]

\* The answer of GET acme-challenge/[token] when retrieveHttpChallenge ends
\* in the given way: a readFile that fails reads as 'no such challenge', an
\* ensureStorageDirs that fails reaches the handler's catch.
Serve(token, read) ==
    IF ~WellFormed(token) THEN GET(token)
    ELSE CASE read = "ok"     -> GET(token)
           [] read = "fails"  -> [status |-> 404, text |-> NoKeyAuthorization]
           [] read = "throws" -> [status |-> 500, text |-> NoKeyAuthorization]

\* GET acme-challenge/[token] as a request.
ChallengeGet(i) ==
    /\ Free(i)
    /\ \E token \in TokenInputs, read \in ReadOutcomes :
          Begin(i, [kind |-> "challenge", token |-> token, pc |-> "done",
                    read |-> IF WellFormed(token) THEN read ELSE Undefined,
                    status |-> Serve(token, read).status,
                    keyAuthorization |-> Serve(token, read).text])
    /\ UNCHANGED << files, acmeClientInstance, server >>

\* The response is out: the handler invocation is over.
Finish(i) ==
    /\ req[i].pc = "done"
    /\ req' = [req EXCEPT ![i] = IdleReq]
    /\ UNCHANGED << files, acmeClientInstance, server >>

\* ---------------------------------------------------------- specifications
Start(i) ==
    \/ GenerateStart(i)
    \/ RenewStart(i)
    \/ VerifyStart(i)
    \/ FinalizeStart(i)
    \/ ChallengeGet(i)

Step(i) ==
    \/ GetAccountKey(i)
    \/ WriteAccountKey(i)
    \/ CreateAccount(i)
    \/ CreateOrder(i)
    \/ GetAuthorizations(i)
    \/ CompleteChallenge(i)
    \/ WaitForValidStatus(i)
    \/ FinalizeOrder(i)
    \/ GetCertificate(i)
    \/ StoreCertificate(i)
    \/ StorePendingOrder(i)
    \/ StoreHttpChallenge(i)
    \/ StorePendingOrderCatch(i)
    \/ RemovePendingOrder(i)
    \/ UnlinkPendingOrder(i)
    \/ RemoveHttpChallenge(i)
    \/ GetOrder(i)

Acme == AcmeValidate \/ AcmeIssue

\* Requests arrive one after the other: a request starts when none is running.
Next ==
    \/ \E i \in SeqProcs : Start(i) \/ Step(i) \/ Finish(i)
    \/ Acme

Spec == Init /\ [][Next]_vars

\* Two requests, one in each slot, overlap in any way: the steps of one
\* interleave with the steps of the other at their awaits.
ConcNext ==
    \/ \E i \in Procs : Start(i) \/ Step(i)
    \/ Acme

ConcSpec == Init /\ [][ConcNext]_vars

\* ------------------------------------------------------------- properties
\* A PendingOrderRecord whose token is t exists.
PendingOrderWithToken(t) ==
    \E o \in OrderIds : pendingFile[o] # NoPendingOrder /\ pendingFile[o].token = t

\* No request is running.
BetweenRequests == \A i \in Procs : req[i].pc \in {"idle", "done"}

\* finalize-certificate has read an order status other than 'ready'.
SawNotReady(i) ==
    /\ req[i].kind = "finalize"
    /\ req[i].orderStatus \notin {Undefined, "ready"}

\* C1: a finalize-certificate call that finds the ACME order in a status
\* other than 'ready' answers 400 (order not ready), has not called
\* finalizeOrder and has obtained and written no certificate.
C1_NotReadyAnswers400 ==
    \A i \in Procs :
        SawNotReady(i) =>
            /\ ~Did(i, "finalizeOrder")
            /\ req[i].certificatePem = 0
            /\ req[i].pc # "storeCertificate"
            /\ req[i].pc = "done" => req[i].status = 400

\* C2: between requests, a ChallengeResponseRecord for token t exists if and
\* only if a PendingOrderRecord with token t exists.
C2_ChallengeIffPendingOrder ==
    BetweenRequests =>
        \A t \in Tokens : (challengeFile[t] # NoKeyAuthorization) <=> PendingOrderWithToken(t)

\* The request in slot i has answered, and its answer ends its http-01 order:
\* finalize returned 'issued', finalize saw the order 'invalid', or generate /
\* renew failed after the order was created.
TerminalOutcome(i) ==
    /\ req[i].pc = "done"
    /\ \/ req[i].kind = "finalize" /\ req[i].body = "issued"
       \/ req[i].kind = "finalize" /\ req[i].orderStatus = "invalid"
       \/ /\ req[i].kind \in {"generate", "renew"}
          /\ req[i].challengeType = "http-01"
          /\ req[i].orderUrl # 0
          /\ req[i].status >= 500

\* C3: after a terminal outcome of an http-01 order, GET acme-challenge/T for
\* the order's token T answers 404 and the order has no PendingOrderRecord.
C3_TerminalOutcomeLeavesNothing ==
    \A i \in Procs :
        TerminalOutcome(i) =>
            /\ pendingFile[req[i].orderUrl] = NoPendingOrder
            /\ GET(orders[req[i].orderUrl].authz).status = 404

\* C4: no step of verify-http-challenge, whatever its outcome, changes a
\* PendingOrderRecord, a ChallengeResponseRecord or a CertificateRecord (so
\* a second call leaves the stores as the first did), and when it has
\* answered 'valid' the PendingOrderRecord it read is still there.
C4_VerifyLeavesStores ==
    /\ [][ (\E i \in Procs : req[i].kind = "verify" \/ req'[i].kind = "verify")
             => UNCHANGED << certFiles, pendingFiles >> ]_vars
    /\ [](\A i \in Procs :
             (req[i].kind = "verify" /\ req[i].pc = "done" /\ req[i].body = "valid")
                => /\ pendingFile[req[i].orderUrl] # NoPendingOrder
                   /\ pendingFile[req[i].orderUrl] = req[i].pendingOrder)

\* A verify-http-challenge has answered 'valid' and the pending order is there.
C4_Witness ==
    \E i \in Procs :
        /\ req[i].kind = "verify" /\ req[i].pc = "done" /\ req[i].body = "valid"
        /\ pendingFile[req[i].orderUrl] # NoPendingOrder
        /\ challengeFile[req[i].pendingOrder.token] # NoKeyAuthorization

\* C5: verify-http-challenge answers status 'invalid' as a 4xx outcome, when
\* the ACME server reported the challenge invalid, and never together with
\* an error (5xx).
C5_InvalidIsNotAnError ==
    \A i \in Procs :
        (req[i].kind = "verify" /\ req[i].pc = "done") =>
            /\ req[i].status >= 500 => req[i].body # "invalid"
            /\ req[i].body = "invalid" =>
                  /\ req[i].status \in 400..499
                  /\ authz[req[i].challenge.token] = "invalid"

\* C6: a renewal runs the challenge type (and DNS configuration) stored for
\* the domain, and the stored type is the same after the renewal has written
\* its CertificateRecord: directly for dns-01; for http-01 the pending order
\* carries the type and finalize stores the type of the pending order.
C6_RenewalPreservesChallengeType ==
    \A i \in Procs :
        /\ (req[i].kind = "renew" /\ req[i].challengeType # Undefined) =>
              /\ configFile[req[i].domain].challengeType = req[i].challengeType
              /\ configFile[req[i].domain].dnsConfig = req[i].dnsConfig
              /\ Did(i, "challengeCreateDns01") => req[i].challengeType = "dns-01"
              /\ req[i].pc = "storeCertificate" =>
                    /\ req[i].challengeType = "dns-01"
                    /\ CertificateConfig(i).challengeType = req[i].challengeType
                    /\ CertificateConfig(i).dnsConfig = req[i].dnsConfig
              /\ req[i].storePendingOrderResult = "returned" =>
                    /\ req[i].challengeType = "http-01"
                    /\ pendingFile[req[i].orderUrl].challengeType = req[i].challengeType
        /\ (req[i].kind = "finalize" /\ req[i].pc = "storeCertificate") =>
              CertificateConfig(i).challengeType = req[i].pendingOrder.challengeType

\* A dns-01 renewal has been issued and the domain's record is still dns-01.
C6_Witness ==
    \E i \in Procs :
        /\ req[i].kind = "renew" /\ req[i].pc = "done" /\ req[i].body = "issued"
        /\ configFile[req[i].domain].challengeType = "dns-01"
        /\ crtFile[req[i].domain] = req[i].orderUrl

\* C7: a dns-01 generate / renew whose provider is not a supported one is
\* rejected, and has made no ACME call and no DNS call.
C7_UnsupportedProviderRejectedFirst ==
    \A i \in Procs :
        ( /\ req[i].kind \in {"generate", "renew"}
          /\ req[i].challengeType = "dns-01"
          /\ req[i].dnsConfig.provider \notin SupportedProviders )
        => /\ req[i].calls = << >>
           /\ req[i].pc = "done" => req[i].error

\* C8: a dns-01 generate / renew that created the TXT record has attempted
\* its removal by the time it answers.
C8_TxtRecordRemovalAttempted ==
    \A i \in Procs :
        ( /\ req[i].kind \in {"generate", "renew"}
          /\ req[i].pc = "done"
          /\ Did(i, "challengeCreateDns01") )
        => Did(i, "challengeRemoveDns01")

\* C9: two requests that call getAcmeClient concurrently, with no client and
\* no account key yet, get clients bound to the same account key, and that
\* key is the one persisted in account.key.
C9_ConcurrentFirstUse ==
    /\ \A i \in Procs : req[i].client # 0 => req[i].client = accountKeyFile
    /\ \A i, j \in Procs :
          (req[i].client # 0 /\ req[j].client # 0) => req[i].client = req[j].client

\* storePendingOrder has just thrown to the handler in slot i.
StorePendingOrderThrew(i) ==
    /\ req[i].storePendingOrderResult = "threw"
    /\ req[i].pc = "removePendingOrder"
    /\ req[i].ret = "catch"

\* C10: storePendingOrder returns with the PendingOrderRecord and its
\* ChallengeResponseRecord written, or throws and leaves no
\* ChallengeResponseRecord for the token.
C10_StorePendingOrderAllOrNothing ==
    \A i \in Procs :
        /\ (req[i].storePendingOrderResult = "returned" /\ req[i].pc = "done") =>
              /\ pendingFile[req[i].orderUrl] = PendingOrderData(i)
              /\ challengeFile[req[i].challenge.token] = req[i].keyAuthorization
        /\ StorePendingOrderThrew(i) =>
              challengeFile[req[i].challenge.token] = NoKeyAuthorization

\* generate / renew for http-01 has answered with a failure after its ACME
\* order was created.
FailedAfterOrder(i) ==
    /\ req[i].kind \in {"generate", "renew"}
    /\ req[i].challengeType = "http-01"
    /\ req[i].orderUrl # 0
    /\ req[i].pc = "done"
    /\ req[i].status >= 400

\* C11: an http-01 generate / renew that fails after the order was created
\* has removed the order's PendingOrderRecord and ChallengeResponseRecord
\* and answers with the original failure (500 with the handler's error).
C11_FailureRemovesPendingArtifacts ==
    \A i \in Procs :
        FailedAfterOrder(i) =>
            /\ pendingFile[req[i].orderUrl] = NoPendingOrder
            /\ req[i].challenge.token # 0 =>
                  challengeFile[req[i].challenge.token] = NoKeyAuthorization
            /\ req[i].status = 500
            /\ req[i].error

\* C12: once finalize-certificate has persisted the certificate, a failure
\* of the cleanup that follows does not make the request fail: it answers
\* 200 'issued'.
C12_CleanupNeverEscalates ==
    \A i \in Procs :
        (req[i].kind = "finalize" /\ req[i].pc = "done" /\ req[i].ret = "issued")
            => (req[i].status = 200 /\ req[i].body = "issued")

\* No CertificateRecord configuration is stored for the domain.
NoStoredConfig(domain) == domain \notin Domains \/ configFile[domain] = NoConfig

\* A renew-certificate request for a domain without stored configuration.
RenewOfUnknownDomain(i) ==
    /\ req[i].kind = "renew"
    /\ req[i].domain # Undefined
    /\ NoStoredConfig(req[i].domain)

\* The step is the arrival of a request in slot i.
Arrives(i) == req[i].pc = "idle" /\ req'[i].pc # "idle"

\* Nothing outside the request slots changes: no file, no client, no ACME state.
NoSideEffect == UNCHANGED << files, acmeClientInstance, server >>

\* C13 as stated: renew-certificate for a domain without stored
\* configuration answers 404, having made no ACME call and created no order.
C13_UnknownDomainIs404 ==
    \A i \in Procs :
        RenewOfUnknownDomain(i) =>
            /\ req[i].pc = "done" /\ req[i].status = 404
            /\ req[i].calls = << >> /\ req[i].orderUrl = 0

\* C13: renew-certificate for a domain without stored configuration answers
\* at once, 404 when the lookup of the configuration completed and 500 when
\* the storage directories could not be ensured, and in either case makes no
\* ACME call, creates no order and changes no file.
C13_UnknownDomainNoSideEffect ==
    /\ [](\A i \in Procs :
            RenewOfUnknownDomain(i) =>
                /\ req[i].pc = "done"
                /\ req[i].status = IF req[i].read = "throws" THEN 500 ELSE 404
                /\ req[i].error
                /\ req[i].calls = << >> /\ req[i].orderUrl = 0 /\ req[i].client = 0)
    /\ [][ \A i \in Procs :
             (Arrives(i) /\ req'[i].kind = "renew" /\ NoStoredConfig(req'[i].domain))
                => NoSideEffect ]_vars

\* renew-certificate has answered 404 for a domain of the right form that
\* has no configuration, while another domain has one.
C13_Witness ==
    \E i \in Procs :
        /\ RenewOfUnknownDomain(i) /\ req[i].pc = "done" /\ req[i].status = 404
        /\ req[i].domain \in Domains /\ req[i].read = "ok"
        /\ \E d \in Domains : configFile[d] # NoConfig

\* ------------------------------------------- renewal from a stored configuration
\* What configs/<domain>.json may hold when the service starts on a store it
\* did not write in this run (written by an earlier version, or by hand): any
\* value of the CertificateConfig interface, whose dnsConfig is optional.
StoredConfigInputs(domain) ==
    { NoConfig, [domain |-> domain, challengeType |-> "http-01", dnsConfig |-> NoDnsConfig] }
    \cup { [domain |-> domain, challengeType |-> "dns-01", dnsConfig |-> c] :
             c \in DnsConfigInputs \cup {[provider |-> Undefined, apiKey |-> "k"]} }

StoredInit ==
    /\ accountKeyFile = 0
    /\ crtFile = [d \in Domains |-> 0]
    /\ keyFile = [d \in Domains |-> 0]
    /\ configFile \in [Domains -> UNION {StoredConfigInputs(d) : d \in Domains}]
    /\ \A d \in Domains : configFile[d] \in StoredConfigInputs(d)
    /\ configFile["b.example"] = NoConfig
    /\ pendingFile = [o \in OrderIds |-> NoPendingOrder]
    /\ challengeFile = [t \in Tokens |-> NoKeyAuthorization]
    /\ acmeClientInstance = 0
    /\ accounts = {}
    /\ orders = << >>
    /\ authz = [a \in OrderIds |-> "none"]
    /\ urlEmbedsToken \in BOOLEAN
    /\ req = [i \in Procs |-> IdleReq]

\* The steps a renew-certificate request takes after it has arrived.
RenewStep(i) ==
    \/ GetAccountKey(i)
    \/ WriteAccountKey(i)
    \/ CreateAccount(i)
    \/ CreateOrder(i)
    \/ GetAuthorizations(i)
    \/ CompleteChallenge(i)
    \/ WaitForValidStatus(i)
    \/ FinalizeOrder(i)
    \/ GetCertificate(i)
    \/ StoreCertificate(i)
    \/ StorePendingOrder(i)
    \/ StoreHttpChallenge(i)
    \/ StorePendingOrderCatch(i)
    \/ RemovePendingOrder(i)
    \/ UnlinkPendingOrder(i)
    \/ RemoveHttpChallenge(i)

\* Renewals, one after the other, of the domains of the store found at start.
RenewNext ==
    \/ \E i \in SeqProcs : RenewStart(i) \/ RenewStep(i) \/ Finish(i)
    \/ Acme

StoredSpec == StoredInit /\ [][RenewNext]_vars

\* The stored DNS credentials of a dns-01 renewal are incomplete.
MissingCredentials(i) ==
    /\ req[i].kind = "renew"
    /\ req[i].challengeType = "dns-01"
    /\ \/ req[i].dnsConfig = NoDnsConfig
       \/ req[i].dnsConfig.provider = Undefined
       \/ req[i].dnsConfig.apiKey = Undefined

InputError(r) ==
    \/ r.domain \notin Domains
    \/ r.challengeType \notin ChallengeTypes
    \/ /\ r.challengeType = "dns-01"
       /\ (r.dnsConfig.provider = Undefined \/ r.dnsConfig.apiKey = Undefined)

\* C15: a generate request with an input error is answered 4xx in its first
\* step: the client is not obtained, no ACME call is made, and no file, no
\* shared client and no ACME state changes.
C15_InputErrorsRejectedFirst ==
    /\ [](\A i \in Procs :
            (req[i].kind = "generate" /\ InputError(req[i])) =>
                /\ req[i].pc = "done"
                /\ req[i].status \in 400..499 /\ req[i].error
                /\ req[i].calls = << >>
                /\ req[i].client = 0 /\ req[i].accountKey = 0 /\ req[i].orderUrl = 0)
    /\ [][ \A i \in Procs :
             (Arrives(i) /\ req'[i].kind = "generate" /\ InputError(req'[i]))
                => NoSideEffect ]_vars

\* Each kind of input error has been rejected while the store held an
\* account key and the shared client existed.
C15_Witness ==
    /\ accountKeyFile # 0 /\ acmeClientInstance # 0
    /\ \E i \in Procs :
          /\ req[i].kind = "generate" /\ req[i].pc = "done" /\ req[i].status = 400
          /\ req[i].domain \in Domains
          /\ req[i].challengeType = "dns-01"
          /\ req[i].dnsConfig.provider # Undefined /\ req[i].dnsConfig.apiKey = Undefined

\* A generate request for dns-01 with a valid domain and credentials.
DnsGenerate(i) ==
    /\ req[i].kind = "generate" /\ req[i].challengeType = "dns-01"
    /\ ~InputError(req[i])

\* C16: a dns-01 generate with a valid domain and credentials that has
\* returned answered either 200 'issued' or an error (status >= 400 with an
\* error body), and when it answered 'issued' the order was finalized, the
\* certificate downloaded, and the domain's stored configuration is dns-01
\* with the request's dnsConfig, next to that certificate and its key.
C16_DnsGenerateIssuedOrError ==
    \A i \in Procs :
        (DnsGenerate(i) /\ req[i].pc = "done") =>
            /\ \/ req[i].status = 200 /\ req[i].body = "issued" /\ ~req[i].error
               \/ req[i].status >= 400 /\ req[i].error /\ req[i].body = Undefined
            /\ req[i].body = "issued" =>
                  /\ configFile[req[i].domain] =
                        [domain |-> req[i].domain, challengeType |-> "dns-01",
                         dnsConfig |-> req[i].dnsConfig]
                  /\ crtFile[req[i].domain] = req[i].certificatePem
                  /\ keyFile[req[i].domain] = req[i].privateKeyPem
                  /\ req[i].certificatePem = req[i].orderUrl
                  /\ Did(i, "finalizeOrder") /\ Did(i, "getCertificate")

\* A dns-01 generate created the TXT record, had the challenge validated and
\* answered 'issued'.
C16_Witness ==
    \E i \in Procs :
        /\ DnsGenerate(i) /\ req[i].pc = "done" /\ req[i].body = "issued"
        /\ Did(i, "challengeCreateDns01") /\ Did(i, "completeChallenge")

\* A generate request answered 'http-01-pending'.
AnsweredPending(i) ==
    /\ req[i].kind = "generate" /\ req[i].pc = "done"
    /\ req[i].body = "http-01-pending"

\* C17: when an http-01 generate has answered 'http-01-pending', the pending
\* file of its order URL holds the domain, token, key authorization and
\* challenge URL it returned, the challenge file of that token holds that key
\* authorization, the request has called neither completeChallenge nor
\* finalizeOrder, and the ACME order has not been finalized.
C17_PendingAnswerHasPersistedBoth ==
    \A i \in Procs :
        AnsweredPending(i) =>
            /\ req[i].status = 200 /\ req[i].challengeType = "http-01"
            /\ req[i].orderUrl # 0 /\ req[i].challenge.token # 0
            /\ pendingFile[req[i].orderUrl] # NoPendingOrder
            /\ pendingFile[req[i].orderUrl].domain = req[i].domain
            /\ pendingFile[req[i].orderUrl].token = req[i].challenge.token
            /\ pendingFile[req[i].orderUrl].challengeUrl = req[i].challenge.url
            /\ pendingFile[req[i].orderUrl].keyAuthorization = req[i].keyAuthorization
            /\ challengeFile[req[i].challenge.token] = req[i].keyAuthorization
            /\ req[i].keyAuthorization # NoKeyAuthorization
            /\ ~Did(i, "completeChallenge") /\ ~Did(i, "finalizeOrder")
            /\ ~Did(i, "getCertificate")
            /\ orders[req[i].orderUrl].status = "open"
            /\ orders[req[i].orderUrl].csr = 0

\* A generate answered 'http-01-pending' for a challenge the server still
\* holds pending.
C17_Witness ==
    \E i \in Procs :
        /\ AnsweredPending(i)
        /\ authz[req[i].challenge.token] = "pending"
        /\ Did(i, "createOrder")

\* The certificate of a finalize request is issued and persisted: the ACME
\* order was finalized with the CSR of the pending order the request read,
\* and the domain's files hold the certificate, the pending order's private
\* key and an http-01 configuration without DNS configuration.
FinalizePersisted(i) ==
    /\ req[i].pendingOrder # NoPendingOrder
    /\ req[i].pendingOrder.domain = req[i].domain
    /\ Did(i, "finalizeOrder") /\ Did(i, "getCertificate")
    /\ orders[req[i].orderUrl].csr = req[i].pendingOrder.csrPem
    /\ orders[req[i].orderUrl].status = "valid"
    /\ crtFile[req[i].domain] = req[i].certificatePem
    /\ keyFile[req[i].domain] = req[i].pendingOrder.privateKeyPem
    /\ configFile[req[i].domain] =
          [domain |-> req[i].domain, challengeType |-> "http-01", dnsConfig |-> NoDnsConfig]

\* The pending file of the request's order and the challenge file of its
\* token are gone.
PendingStateDeleted(i) ==
    /\ pendingFile[req[i].orderUrl] = NoPendingOrder
    /\ challengeFile[req[i].pendingOrder.token] = NoKeyAuthorization

FinalizeArrives(i) ==
    /\ Arrives(i) /\ req'[i].kind = "finalize"
    /\ req'[i].orderUrl # 0 /\ req'[i].domain # Undefined

\* The request was answered in the step it arrived in, with an error and
\* without obtaining the client or calling the ACME server.
RejectedOnArrival(r, codes) ==
    /\ r.pc = "done" /\ r.status \in codes /\ r.error
    /\ r.calls = << >> /\ r.client = 0 /\ r.pendingOrder = NoPendingOrder

\* The statement as the contract words it: a finalize-certificate for an
\* order URL without pending file answers 404, one for a pending order of
\* another domain answers 400.
C19_MissingIs404MismatchIs400 ==
    [][ \A i \in Procs :
          FinalizeArrives(i) =>
              LET r == req'[i]
                  stored == pendingFile[r.orderUrl]
              IN  /\ stored = NoPendingOrder => RejectedOnArrival(r, {404})
                  /\ (stored # NoPendingOrder /\ stored.domain # r.domain)
                        => RejectedOnArrival(r, {400}) ]_vars

\* C19: a finalize-certificate for an order URL without pending file, or
\* with a pending file of another domain, is answered in its first step
\* without the client, without an ACME call and with every file, the shared
\* client and the ACME state unchanged: 404 when the lookup returns no
\* record (none stored, or the file cannot be read), 400 when it returns a
\* record of another domain, 500 when the lookup throws.  So the certificate
\* and key files of a domain only ever come from an order created for it.
C19_NoPendingOrMismatchRejected ==
    /\ [][ \A i \in Procs :
             FinalizeArrives(i) =>
                 LET r == req'[i]
                     stored == pendingFile[r.orderUrl]
                     codes == CASE r.read = "throws" -> {500}
                                [] r.read = "ok" /\ stored # NoPendingOrder -> {400}
                                [] OTHER -> {404}
                 IN  (stored = NoPendingOrder \/ stored.domain # r.domain) =>
                        RejectedOnArrival(r, codes) /\ NoSideEffect ]_vars
    /\ [](\A d \in Domains :
            /\ crtFile[d] # 0 => orders[crtFile[d]].domain = d
            /\ keyFile[d] # 0 => orders[keyFile[d]].domain = d
            /\ configFile[d] # NoConfig => configFile[d].domain = d)
    /\ [](\A i \in Procs :
            (req[i].kind = "finalize" /\ req[i].pendingOrder # NoPendingOrder) =>
                /\ req[i].pendingOrder.domain = req[i].domain
                /\ orders[req[i].orderUrl].domain = req[i].domain)

\* A finalize-certificate named the pending order of another domain and was
\* answered 400, in a state where a certificate is stored.
C19_Witness ==
    /\ \E d \in Domains : crtFile[d] # 0
    /\ \E i \in Procs :
          /\ req[i].kind = "finalize" /\ req[i].pc = "done" /\ req[i].status = 400
          /\ req[i].orderUrl # 0 /\ req[i].domain \in Domains /\ req[i].read = "ok"
          /\ pendingFile[req[i].orderUrl] # NoPendingOrder
          /\ pendingFile[req[i].orderUrl].domain # req[i].domain
          /\ req[i].calls = << >>

\* C20: when verify-http-challenge has answered 'valid', a GET of
\* acme-challenge/T for the token T of the pending order it read answers 200
\* with the key authorization stored in that pending order.
C20_ValidOnlyIfChallengeServed ==
    \A i \in Procs :
        (req[i].kind = "verify" /\ req[i].pc = "done" /\ req[i].body = "valid") =>
            GET(req[i].pendingOrder.token) =
                [status |-> 200, text |-> req[i].pendingOrder.keyAuthorization]

\* C21: a GET of acme-challenge/{token} that has been answered got 400 for
\* a token that is empty or has a character outside the pattern, 200 with
\* exactly the stored key authorization when a challenge file exists for the
\* token, and 404 when none exists (or 500, the answer to a store error);
\* and the step that answers it changes no file, nor the shared client or
\* the ACME state.
C21_ChallengeGetServesTheStore ==
    /\ [](\A i \in Procs :
            (req[i].kind = "challenge" /\ req[i].pc = "done") =>
                IF ~WellFormed(req[i].token)
                THEN req[i].status = 400
                ELSE IF challengeFile[req[i].token] # NoKeyAuthorization
                THEN \/ /\ req[i].status = 200
                        /\ req[i].keyAuthorization = challengeFile[req[i].token]
                     \/ req[i].status = 500
                ELSE req[i].status \in {404, 500})
    /\ [][ \A i \in Procs :
             (Arrives(i) /\ req'[i].kind = "challenge") => NoSideEffect ]_vars

\* verify-http-challenge asked the server to validate and reported that the
\* validation failed (status 'invalid').
ValidationFailed(i) ==
    /\ req[i].kind = "verify" /\ req[i].pc = "done" /\ req[i].body = "invalid"
    /\ Did(i, "completeChallenge")

OtherOrdersWithToken(o, t) ==
    {p \in OrderIds : p # o /\ pendingFile[p] # NoPendingOrder /\ pendingFile[p].token = t}

\* C23: a step of a request for domain d and order o leaves the certificate,
\* key and configuration files of every other domain as they are, leaves the
\* pending file of every other order as it is, and changes no challenge file
\* that belongs to the pending order of another order.
C23_IsolatedByKey ==
    [][ \A i \in Procs :
          req'[i] # req[i] =>
              /\ \A d \in Domains \ {req'[i].domain} :
                    /\ crtFile'[d] = crtFile[d]
                    /\ keyFile'[d] = keyFile[d]
                    /\ configFile'[d] = configFile[d]
              /\ \A o \in OrderIds \ {req'[i].orderUrl} :
                    pendingFile'[o] = pendingFile[o]
              /\ \A t \in Tokens :
                    challengeFile'[t] # challengeFile[t]
                        => OtherOrdersWithToken(req'[i].orderUrl, t) = {} ]_vars

\* Request i is in storeCertificate for domain d, with the certificate the
\* server issued for an order of d.
StoringIssued(i, d) ==
    /\ req[i].pc = "storeCertificate" /\ req[i].domain = d
    /\ req[i].kind \in {"generate", "renew", "finalize"}
    /\ Did(i, "finalizeOrder") /\ Did(i, "getCertificate")
    /\ orders[req[i].orderUrl].status = "valid"
    /\ orders[req[i].orderUrl].domain = d

RenewedPending(i) ==
    /\ req[i].kind = "renew" /\ req[i].pc = "done"
    /\ req[i].body = "http-01-pending"

\* C25: when a renewal has answered 'http-01-pending', the domain's stored
\* challenge type is http-01, the request created an order for the domain
\* that is not finalized, the pending file of that order holds the domain,
\* the challenge and a key and CSR generated for this order (not the stored
\* key), the challenge file of the token holds the key authorization, and
\* nothing was validated or finalized; and no step of a renewal that is not
\* dns-01 changes a certificate, key or configuration file.
C25_Http01RenewalIsFreshPending ==
    /\ [](\A i \in Procs :
            RenewedPending(i) =>
                /\ req[i].status = 200 /\ req[i].challengeType = "http-01"
                /\ configFile[req[i].domain].challengeType = "http-01"
                /\ Did(i, "createOrder") /\ req[i].orderUrl \in 1..Len(orders)
                /\ orders[req[i].orderUrl].domain = req[i].domain
                /\ orders[req[i].orderUrl].status = "open"
                /\ orders[req[i].orderUrl].csr = 0
                /\ pendingFile[req[i].orderUrl] =
                      [ domain |-> req[i].domain, challengeType |-> "http-01",
                        challengeUrl |-> req[i].challenge.url,
                        token |-> req[i].challenge.token,
                        keyAuthorization |-> req[i].keyAuthorization,
                        privateKeyPem |-> req[i].orderUrl, csrPem |-> req[i].orderUrl ]
                /\ req[i].challenge.token # 0
                /\ keyFile[req[i].domain] # req[i].orderUrl
                /\ crtFile[req[i].domain] # req[i].orderUrl
                /\ challengeFile[req[i].challenge.token] = req[i].keyAuthorization
                /\ req[i].keyAuthorization # NoKeyAuthorization
                /\ ~Did(i, "completeChallenge") /\ ~Did(i, "finalizeOrder"))
    /\ [][ \A i \in Procs :
             (req'[i].kind = "renew" /\ req'[i].challengeType # "dns-01" /\ req'[i] # req[i])
                => UNCHANGED certFiles ]_vars

\* A renewal answered 'http-01-pending' for a domain that holds the
\* certificate and key of its first order.
C25_Witness ==
    \E i \in Procs :
        /\ RenewedPending(i) /\ req[i].orderUrl = 2
        /\ crtFile[req[i].domain] = 1 /\ keyFile[req[i].domain] = 1
        /\ pendingFile[1] = NoPendingOrder

\* C26: a renewal of a domain that has a certificate record, when it
\* succeeds (200), has renewed the certificate by itself: it answers
\* 'issued' and the domain's certificate is the one of the renewal's order,
\* with no validation left for the user to perform.
C26_RenewalNeedsNoRevalidation ==
    \A i \in Procs :
        (req[i].kind = "renew" /\ req[i].pc = "done" /\ req[i].status = 200) =>
            /\ req[i].body = "issued"
            /\ crtFile[req[i].domain] = req[i].orderUrl

\* ------------------------------------------------- the http-01 sequence
\* A run in which nothing fails: storage calls succeed, ACME calls return,
\* and the server finds every challenge it is asked to validate valid.
\* A step of request i is free of faults when it ends in no catch block.
NoFault(i) ==
    /\ req'[i].status < 500
    /\ req'[i].pc # "storePendingOrderCatch"
    /\ req'[i].ret # "catch"
    /\ ~req'[i].failed /\ ~req'[i].cleanupFailed

\* The pending orders the client still has to bring to a certificate.
Outstanding == {o \in 1..Len(orders) : pendingFile[o] # NoPendingOrder}

\* The client of the http-01 flow: it asks for a certificate by http-01,
\* then calls verify-http-challenge with what generate returned, then
\* finalize-certificate once the order is ready.
ClientGenerate(i) ==
    /\ Outstanding = {} /\ Len(orders) < MaxOrders
    /\ GenerateStart(i)
    /\ req'[i].challengeType = "http-01" /\ req'[i].domain \in Domains

ClientVerify(i) ==
    /\ \E o \in Outstanding :
          /\ OrderStatus(o) = "pending"
          /\ VerifyStart(i)
          /\ req'[i].orderUrl = o /\ req'[i].read = "ok"
          /\ req'[i].challengeUrl = pendingFile[o].challengeUrl
          /\ req'[i].domain # Undefined

ClientFinalize(i) ==
    /\ \E o \in Outstanding :
          /\ OrderStatus(o) = "ready"
          /\ FinalizeStart(i)
          /\ req'[i].orderUrl = o /\ req'[i].read = "ok"
          /\ req'[i].domain = pendingFile[o].domain

Client(i) == ClientGenerate(i) \/ ClientVerify(i) \/ ClientFinalize(i)

\* A step of the running handler in which nothing fails.
Proceed(i) == Step(i) /\ NoFault(i)

\* The server validates a challenge it was asked to validate, and finds it valid.
AcmeFindsValid == AcmeValidate /\ \A a \in OrderIds : authz'[a] # "invalid"

LiveNext ==
    \/ \E i \in SeqProcs : Client(i) \/ Proceed(i) \/ Finish(i)
    \/ AcmeFindsValid
    \/ AcmeIssue

\* Handlers run on, responses go out, the client does its next call and the
\* server does its work.
Fairness ==
    /\ \A i \in SeqProcs :
          WF_vars(Client(i)) /\ WF_vars(Proceed(i)) /\ WF_vars(Finish(i))
    /\ WF_vars(AcmeFindsValid)
    /\ WF_vars(AcmeIssue)

LiveSpec == Init /\ [][LiveNext]_vars /\ Fairness

\* C27: in a run without faults, every order for which generate stored a
\* pending order is eventually issued (its certificate is stored for its
\* domain, with a configuration), and every request that has started
\* eventually has its response.
C27_Http01SequenceIssues ==
    /\ \A o \in OrderIds :
          (o \in Outstanding) ~>
              (\E d \in Domains : crtFile[d] = o /\ configFile[d] # NoConfig)
    /\ \A i \in SeqProcs :
          (req[i].pc # "idle") ~> (req[i].pc = "done")

DnsSteps ==
    << "createOrder", "challengeCreateDns01", "completeChallenge",
       "challengeRemoveDns01", "finalizeOrder", "getCertificate" >>

\* The calls of a request after it obtained the client.
CallsAfterClient(i) == SelectSeq(req[i].calls, LAMBDA c : c # "createAccount")

IsPrefix(s, t) == Len(s) <= Len(t) /\ \A k \in 1..Len(s) : s[k] = t[k]

\* A dns-01 generate or renew request whose challenge was pending when the
\* handler selected it.
DnsPending(i) ==
    /\ req[i].kind \in {"generate", "renew"} /\ req[i].challengeType = "dns-01"
    /\ req[i].challenge.status = "pending"

\* C29: the calls of a dns-01 request with a pending challenge are an
\* initial part of: createOrder, TXT record creation, completeChallenge,
\* TXT record removal, finalizeOrder, getCertificate.  It waits for the
\* valid status right after completeChallenge, removes the record before it
\* finalizes, and writes the certificate record only after all six; so
\* completeChallenge never comes before a successful record creation.
C29_DnsStepsInOrder ==
    \A i \in Procs :
        DnsPending(i) =>
            /\ IsPrefix(CallsAfterClient(i), DnsSteps)
            /\ req[i].pc = "completeChallenge" => Len(CallsAfterClient(i)) = 2
            /\ req[i].pc = "waitForValidStatus" => Len(CallsAfterClient(i)) = 3
            /\ req[i].pc = "finalizeOrder" => Len(CallsAfterClient(i)) = 4
            /\ req[i].pc = "getCertificate" => Len(CallsAfterClient(i)) = 5
            /\ req[i].pc = "storeCertificate" => CallsAfterClient(i) = DnsSteps
            /\ req[i].body = "issued" => CallsAfterClient(i) = DnsSteps
            /\ (\E d \in Domains : crtFile[d] = req[i].orderUrl \/ keyFile[d] = req[i].orderUrl)
                  => CallsAfterClient(i) = DnsSteps

\* A dns-01 request with a pending challenge went through all the steps and
\* answered 'issued'.
C29_Witness ==
    \E i \in Procs :
        /\ DnsPending(i) /\ req[i].pc = "done" /\ req[i].body = "issued"
        /\ CallsAfterClient(i) = DnsSteps
        /\ crtFile[req[i].domain] = req[i].orderUrl

\* getAcmeClient has just returned to the handler in slot i.
GetAcmeClientReturned(i) ==
    /\ req[i].kind \in {"generate", "renew", "verify", "finalize"}
    /\ req[i].pc = AfterClient(req[i].kind)

\* C30: the client getAcmeClient returns is never null and is bound to a
\* key whose createAccount has completed successfully; it is not an
\* instance whose createAccount is still in progress in another request,
\* nor one whose createAccount failed.
C30_ReturnedClientHasAccount ==
    \A i \in Procs :
        GetAcmeClientReturned(i) =>
            /\ req[i].client # 0
            /\ req[i].client \in accounts

\* The createAccount call of slot i fails in this step with an error other
\* than 'account already exists'.
CreateAccountFails(i) ==
    /\ req[i].pc = "createAccount"
    /\ req'[i].pc # "createAccount"
    /\ req'[i].pc # AfterClient(req[i].kind)

\* A request arrives in slot i and calls getAcmeClient in this step.
CallsGetAcmeClient(i) ==
    /\ req[i].pc = "idle"
    /\ req'[i].kind \in {"generate", "renew", "verify", "finalize"}
    /\ req'[i].pc \in {"getAccountKey", AfterClient(req'[i].kind)}

\* C31: when createAccount fails for a reason other than 'account already
\* exists', getAcmeClient throws (the handler answers 500 with an error and
\* holds no client) and the shared instance is null afterwards; and a call
\* of getAcmeClient that finds the instance null runs the initialisation
\* again, starting with the account key.
C31_FailedAccountResetsInstance ==
    [][ \A i \in Procs :
          /\ CreateAccountFails(i) =>
                /\ acmeClientInstance' = 0
                /\ req'[i].pc = "done" /\ req'[i].status = 500 /\ req'[i].error
                /\ req'[i].client = 0
          /\ (CallsGetAcmeClient(i) /\ acmeClientInstance = 0) =>
                req'[i].pc = "getAccountKey" ]_vars

\* A request ended with the initialisation error: createAccount was its only
\* call, it holds no client, the instance is null and the key is on disk.
C31_Witness ==
    \E i \in Procs :
        /\ req[i].pc = "done" /\ req[i].status = 500
        /\ req[i].calls = << "createAccount" >>
        /\ req[i].client = 0
        /\ acmeClientInstance = 0
        /\ accountKeyFile # 0

\* No storeCertificate call for domain d is between its first and last write.
NoStoreInProgress(d) ==
    \A i \in Procs : ~(req[i].pc = "storeCertificate" /\ req[i].domain = d)

\* C32: once no storeCertificate call for a domain is in progress, whether
\* the calls returned or failed part-way and however they interleaved, the
\* certificate and the private key stored for the domain are those of the
\* same issuance.
C32_RecordFromOneIssuance ==
    \A d \in Domains :
        (NoStoreInProgress(d) /\ crtFile[d] # 0 /\ keyFile[d] # 0)
            => crtFile[d] = keyFile[d]

\* ------------------------------------------------- retrying finalize
\* The run of the http-01 sequence in which the only faults are a failed
\* certificate download or a failed certificate write in a finalize call,
\* and the client calls finalize-certificate again for an order that still
\* has its pending order.
FailAfterFinalize(i) ==
    /\ req[i].kind = "finalize"
    /\ req[i].pc \in {"getCertificate", "storeCertificate"}
    /\ Step(i)
    /\ ~NoFault(i)

\* The server has accepted finalizeOrder for order o.
Finalized(o) == o \in 1..Len(orders) /\ orders[o].status \in {"processing", "valid"}

ClientRetryFinalize(i) ==
    /\ \E o \in Outstanding :
          /\ Finalized(o)
          /\ FinalizeStart(i)
          /\ req'[i].orderUrl = o /\ req'[i].read = "ok"
          /\ req'[i].domain = pendingFile[o].domain

RetryNext ==
    \/ \E i \in SeqProcs : Client(i) \/ ClientRetryFinalize(i) \/ Proceed(i)
                             \/ FailAfterFinalize(i) \/ Finish(i)
    \/ AcmeFindsValid
    \/ AcmeIssue

RetrySpec ==
    /\ Init /\ [][RetryNext]_vars /\ Fairness
    /\ \A i \in SeqProcs : WF_vars(ClientRetryFinalize(i))

\* C33: when the server has accepted finalizeOrder for an order whose
\* pending order is stored, then, even if the finalize call fails at the
\* certificate download or the certificate write, a finalize-certificate
\* call for the order eventually answers 'issued' and the pending order is
\* eventually deleted.
C33_FinalizeRetryIssues ==
    \A o \in OrderIds :
        (Finalized(o) /\ pendingFile[o] # NoPendingOrder)
            ~> ( /\ pendingFile[o] = NoPendingOrder
                 /\ \E d \in Domains : crtFile[d] = o /\ keyFile[d] = o )

\* The pending file of order o is deleted in this step.
PendingOrderDeleted(o) ==
    pendingFile[o] # NoPendingOrder /\ pendingFile'[o] = NoPendingOrder

\* Request i is a generate or renew request cleaning up, in its catch block,
\* the order it created and has not answered for.
CleansUpOwnOrder(i, o) ==
    /\ req[i].kind \in {"generate", "renew"} /\ req[i].orderUrl = o
    /\ req[i].ret = "catch"

\* Request i is a finalize-certificate that found order o invalid.
AbandonsOrder(i, o) ==
    /\ req[i].kind = "finalize" /\ req[i].orderUrl = o
    /\ req[i].ret = "invalid" /\ req[i].orderStatus = "invalid"

\* Request i is a finalize-certificate whose storeCertificate has returned:
\* the domain's certificate record holds the key of the pending order.
StoredKeyOf(i, o) ==
    /\ req[i].kind = "finalize" /\ req[i].orderUrl = o
    /\ req[i].ret = "issued"
    /\ keyFile[req[i].domain] = pendingFile[o].privateKeyPem
    /\ crtFile[req[i].domain] = o
    /\ configFile[req[i].domain] # NoConfig

\* C34: the pending order of an http-01 order holds the private key
\* generated for that order, and once 'http-01-pending' was answered it is
\* deleted only by a finalize-certificate that found the order invalid or
\* by one whose certificate record write has succeeded, so that the key is
\* then in the domain's certificate record.  (Before the answer, the
\* request that created the order may delete it in its catch block.)
C34_KeyHeldUntilStored ==
    [][ \A o \in OrderIds :
          /\ pendingFile[o] # NoPendingOrder => pendingFile[o].privateKeyPem = o
          /\ PendingOrderDeleted(o) =>
                \E i \in Procs :
                    CleansUpOwnOrder(i, o) \/ AbandonsOrder(i, o) \/ StoredKeyOf(i, o) ]_vars

\* A finalize-certificate has deleted the pending order after its
\* certificate record write: the key of the order is in the key file.
C34_Witness ==
    \E i \in Procs :
        /\ req[i].kind = "finalize" /\ req[i].ret = "issued"
        /\ req[i].pendingOrder.privateKeyPem = req[i].orderUrl
        /\ pendingFile[req[i].orderUrl] = NoPendingOrder
        /\ keyFile[req[i].domain] = req[i].orderUrl

\* --------------------------------------- two finalize calls for one order
\* A fault-free generate and verify bring an http-01 order to 'ready'; then
\* the client calls finalize-certificate for it twice, the two calls overlap
\* in any way and any of their steps may fail.
SetUpProceed(i) == req[i].kind \in {"generate", "verify"} /\ Proceed(i)

SetUpFinish(i) == req[i].kind \in {"generate", "verify"} /\ Finish(i)

FinalizeStep(i) == req[i].kind = "finalize" /\ Step(i)

TwoFinalizeNext ==
    \/ \E i \in SeqProcs : ClientGenerate(i) \/ ClientVerify(i)
                             \/ SetUpProceed(i) \/ SetUpFinish(i)
    \/ \E i \in Procs : ClientFinalize(i) \/ FinalizeStep(i)
    \/ AcmeFindsValid
    \/ AcmeIssue

TwoFinalizeSpec == Init /\ [][TwoFinalizeNext]_vars

\* Both slots hold a finalize-certificate call for the same order, both have
\* returned, and one of them answered 'issued'.
BothFinalizeReturned ==
    /\ \A i \in Procs : req[i].kind = "finalize" /\ req[i].pc = "done"
    /\ \A i, j \in Procs : req[i].orderUrl = req[j].orderUrl
    /\ \E i \in Procs : req[i].body = "issued"

\* The certificate record of the order's domain holds the certificate and
\* the key of the order the two calls were for.
RecordOfOrder ==
    \A i \in Procs :
        /\ crtFile[req[i].domain] = req[i].orderUrl
        /\ keyFile[req[i].domain] = req[i].pendingOrder.privateKeyPem
        /\ req[i].pendingOrder.privateKeyPem = req[i].orderUrl
        /\ configFile[req[i].domain] # NoConfig

\* The pending order and the challenge response of the order are gone.
RecordsGone ==
    \A i \in Procs :
        /\ pendingFile[req[i].orderUrl] = NoPendingOrder
        /\ challengeFile[req[i].pendingOrder.token] = NoKeyAuthorization

VerifyArrives(i) ==
    /\ Arrives(i) /\ req'[i].kind = "verify"
    /\ req'[i].orderUrl # 0 /\ req'[i].challengeUrl # NoUrl /\ req'[i].domain # Undefined

\* The pending order stored for the request's order URL does not exist or
\* holds another challenge URL than the request names.
NoMatchingPendingOrder(r) ==
    \/ pendingFile[r.orderUrl] = NoPendingOrder
    \/ pendingFile[r.orderUrl].challengeUrl # r.challengeUrl

\* A resuming request that goes on after its arrival works on the pending
\* order now in the store.
ResumesFromStore(i) ==
    (Arrives(i) /\ req'[i].kind \in {"verify", "finalize"} /\ req'[i].pc # "done")
        => /\ req'[i].pendingOrder # NoPendingOrder
           /\ req'[i].pendingOrder = pendingFile[req'[i].orderUrl]

\* The challenge a verify request has completed is the stored one, and what
\* a finalize request has sent and stored are the stored CSR and key.
UsesStoredData(i) ==
    /\ (req[i].kind = "verify" /\ Did(i, "completeChallenge")) =>
          /\ req[i].challenge.url = req[i].pendingOrder.challengeUrl
          /\ req[i].challenge.token = req[i].pendingOrder.token
          /\ req[i].challengeUrl = req[i].pendingOrder.challengeUrl
    /\ (req[i].kind = "finalize" /\ req[i].pc = "getCertificate") =>
          orders[req[i].orderUrl].csr = req[i].pendingOrder.csrPem
    /\ (req[i].kind = "finalize" /\ req[i].pc = "storeCertificate") =>
          req[i].privateKeyPem = req[i].pendingOrder.privateKeyPem

\* The statement as worded: a verify-http-challenge without matching
\* pending order is answered 404 with no ACME call.
C36_NoMatchIs404 ==
    [][ \A i \in Procs :
          (VerifyArrives(i) /\ NoMatchingPendingOrder(req'[i]))
              => RejectedOnArrival(req'[i], {404}) ]_vars

\* C36: verify-http-challenge and finalize-certificate work on the pending
\* order read from the store when the request arrives: the challenge URL and
\* token completed, the CSR sent and the private key stored are the ones of
\* that record.  A verify request for which no pending order is stored, or
\* whose challenge URL differs from the stored one, is answered on arrival
\* with no client, no ACME call and nothing changed: 404 when the lookup
\* completed, 500 when the lookup threw.
C36_ResumptionReadsTheStore ==
    /\ [][ \A i \in Procs :
             /\ ResumesFromStore(i)
             /\ (VerifyArrives(i) /\ NoMatchingPendingOrder(req'[i])) =>
                   /\ RejectedOnArrival(req'[i], IF req'[i].read = "throws" THEN {500} ELSE {404})
                   /\ NoSideEffect ]_vars
    /\ [](\A i \in Procs : UsesStoredData(i))

\* A verify request named a challenge URL other than the stored one of an
\* existing pending order and was answered 404 without any call.
C36_Witness ==
    \E i \in Procs :
        /\ req[i].kind = "verify" /\ req[i].pc = "done" /\ req[i].status = 404
        /\ req[i].read = "ok" /\ req[i].orderUrl # 0 /\ req[i].challengeUrl # NoUrl
        /\ pendingFile[req[i].orderUrl] # NoPendingOrder
        /\ pendingFile[req[i].orderUrl].challengeUrl # req[i].challengeUrl
        /\ req[i].calls = << >>

\* C37: a verify-http-challenge request that names an order and the
\* challenge URL stored in the pending order generate or renew wrote for it,
\* and whose lookup reads that record, passes the handler's checks: it goes
\* on to getAcmeClient and completeChallenge and is not answered on arrival.
C37_MatchingVerifyPassesLocalChecks ==
    [][ \A i \in Procs :
          (VerifyArrives(i) /\ req'[i].read = "ok" /\ ~NoMatchingPendingOrder(req'[i]))
              => /\ req'[i].pc \in {"getAccountKey", "completeChallenge"}
                 /\ req'[i].pendingOrder = pendingFile[req'[i].orderUrl] ]_vars

\* C38: a finalize-certificate that read a status other than 'ready' and
\* has answered, answered 400; if the status was 'invalid' it has removed
\* the pending order and its challenge response first (as far as the
\* removal met no failure that was only logged), and for every other status
\* the pending order it read is still in the store, unchanged.
C38_InvalidRemovedOthersKept ==
    \A i \in Procs :
        (SawNotReady(i) /\ req[i].pc = "done") =>
            /\ req[i].status = 400
            /\ IF req[i].orderStatus = "invalid"
               THEN ~req[i].cleanupFailed => PendingStateDeleted(i)
               ELSE /\ req[i].pendingOrder # NoPendingOrder
                    /\ pendingFile[req[i].orderUrl] = req[i].pendingOrder

\* Request i takes a step of the removePendingOrder call it is in.
RemovalStep(i) ==
    /\ req[i].pc \in {"removePendingOrder", "unlinkPendingOrder", "removeHttpChallenge"}
    /\ req'[i] # req[i]

\* The removePendingOrder call of request i returns to its caller in this step.
RemovalReturns(i) ==
    /\ RemovalStep(i)
    /\ req'[i].pc \notin {"removePendingOrder", "unlinkPendingOrder", "removeHttpChallenge"}

\* The call returns normally, and it returns to a handler that goes on as
\* after a removal that did not throw.
ReturnsNormally(i) == RemovalReturns(i) => req[i].pc # "removePendingOrder"

\* A call for an order without pending file changes no file.
AbsentChangesNothing(i) ==
    (RemovalStep(i) /\ pendingFile[req[i].orderUrl] = NoPendingOrder /\ req[i].tokenToRemove = 0)
        => /\ UNCHANGED files
           /\ req'[i].pc # "removeHttpChallenge"

\* A call that returns with no failure logged leaves neither the pending
\* file nor the challenge file of the token it read, so that a second call
\* finds nothing to remove.
RemovedBoth(i) ==
    (RemovalReturns(i) /\ ~req'[i].cleanupFailed)
        => /\ pendingFile'[req[i].orderUrl] = NoPendingOrder
           /\ req[i].tokenToRemove # 0 =>
                 challengeFile'[req[i].tokenToRemove] = NoKeyAuthorization

\* C39: removePendingOrder never throws; called for an order without
\* pending order it changes nothing; and a call that met no failure leaves
\* the pending order and its challenge response absent, the state in which
\* a second call changes nothing.
C39_RemovePendingOrderIdempotentTotal ==
    [][ \A i \in Procs :
          ReturnsNormally(i) /\ AbsentChangesNothing(i) /\ RemovedBoth(i) ]_vars

====
